---- MODULE Spec2Model ----
(***************************************************************************)
(* A model of the RSS scraper: the title cleaning pipeline of utils.py,    *)
(* the per-URL probe verify_and_extract_titles, the thread-pool run        *)
(* extract_data and the sanity pass run_data_check of app.py.              *)
(*                                                                         *)
(* Strings are sequences of Unicode code points.                           *)
(***************************************************************************)
EXTENDS Integers, Sequences, FiniteSets, TLC

(***************************************************************************)
(* Bounds of the model.                                                    *)
(***************************************************************************)
MaxLen == 3
MaxEntries == 3
MaxNumTitles == 2
MaxUrls == 3
MaxUrlNames == 2
MaxThreads == 2
MaxRuns == 2

Min(a, b) == IF a < b THEN a ELSE b

Range(s) == {s[i] : i \in 1..Len(s)}

\* All sequences over S of length at most n.
BoundedSeq(S, n) == UNION {[1..k -> S] : k \in 0..n}

(***************************************************************************)
(* utils.py: character classes of Python's re on str patterns.            *)
(***************************************************************************)

\* The code points from U+0080 on that \w matches on a str pattern (those
\* str.isalnum() accepts), as inclusive ranges.
WordRanges == {
    <<170, 170>>, <<178, 179>>, <<181, 181>>, <<185, 186>>, <<188, 190>>,
    <<192, 214>>, <<216, 246>>, <<248, 705>>, <<710, 721>>, <<736, 740>>,
    <<748, 748>>, <<750, 750>>, <<880, 884>>, <<886, 887>>, <<890, 893>>,
    <<895, 895>>, <<902, 902>>, <<904, 906>>, <<908, 908>>, <<910, 929>>,
    <<931, 1013>>, <<1015, 1153>>, <<1162, 1327>>, <<1329, 1366>>,
    <<1369, 1369>>, <<1376, 1416>>, <<1488, 1514>>, <<1519, 1522>>,
    <<1568, 1610>>, <<1632, 1641>>, <<1646, 1647>>, <<1649, 1747>>,
    <<1749, 1749>>, <<1765, 1766>>, <<1774, 1788>>, <<1791, 1791>>,
    <<1808, 1808>>, <<1810, 1839>>, <<1869, 1957>>, <<1969, 1969>>,
    <<1984, 2026>>, <<2036, 2037>>, <<2042, 2042>>, <<2048, 2069>>,
    <<2074, 2074>>, <<2084, 2084>>, <<2088, 2088>>, <<2112, 2136>>,
    <<2144, 2154>>, <<2160, 2183>>, <<2185, 2190>>, <<2208, 2249>>,
    <<2308, 2361>>, <<2365, 2365>>, <<2384, 2384>>, <<2392, 2401>>,
    <<2406, 2415>>, <<2417, 2432>>, <<2437, 2444>>, <<2447, 2448>>,
    <<2451, 2472>>, <<2474, 2480>>, <<2482, 2482>>, <<2486, 2489>>,
    <<2493, 2493>>, <<2510, 2510>>, <<2524, 2525>>, <<2527, 2529>>,
    <<2534, 2545>>, <<2548, 2553>>, <<2556, 2556>>, <<2565, 2570>>,
    <<2575, 2576>>, <<2579, 2600>>, <<2602, 2608>>, <<2610, 2611>>,
    <<2613, 2614>>, <<2616, 2617>>, <<2649, 2652>>, <<2654, 2654>>,
    <<2662, 2671>>, <<2674, 2676>>, <<2693, 2701>>, <<2703, 2705>>,
    <<2707, 2728>>, <<2730, 2736>>, <<2738, 2739>>, <<2741, 2745>>,
    <<2749, 2749>>, <<2768, 2768>>, <<2784, 2785>>, <<2790, 2799>>,
    <<2809, 2809>>, <<2821, 2828>>, <<2831, 2832>>, <<2835, 2856>>,
    <<2858, 2864>>, <<2866, 2867>>, <<2869, 2873>>, <<2877, 2877>>,
    <<2908, 2909>>, <<2911, 2913>>, <<2918, 2927>>, <<2929, 2935>>,
    <<2947, 2947>>, <<2949, 2954>>, <<2958, 2960>>, <<2962, 2965>>,
    <<2969, 2970>>, <<2972, 2972>>, <<2974, 2975>>, <<2979, 2980>>,
    <<2984, 2986>>, <<2990, 3001>>, <<3024, 3024>>, <<3046, 3058>>,
    <<3077, 3084>>, <<3086, 3088>>, <<3090, 3112>>, <<3114, 3129>>,
    <<3133, 3133>>, <<3160, 3162>>, <<3165, 3165>>, <<3168, 3169>>,
    <<3174, 3183>>, <<3192, 3198>>, <<3200, 3200>>, <<3205, 3212>>,
    <<3214, 3216>>, <<3218, 3240>>, <<3242, 3251>>, <<3253, 3257>>,
    <<3261, 3261>>, <<3293, 3294>>, <<3296, 3297>>, <<3302, 3311>>,
    <<3313, 3314>>, <<3332, 3340>>, <<3342, 3344>>, <<3346, 3386>>,
    <<3389, 3389>>, <<3406, 3406>>, <<3412, 3414>>, <<3416, 3425>>,
    <<3430, 3448>>, <<3450, 3455>>, <<3461, 3478>>, <<3482, 3505>>,
    <<3507, 3515>>, <<3517, 3517>>, <<3520, 3526>>, <<3558, 3567>>,
    <<3585, 3632>>, <<3634, 3635>>, <<3648, 3654>>, <<3664, 3673>>,
    <<3713, 3714>>, <<3716, 3716>>, <<3718, 3722>>, <<3724, 3747>>,
    <<3749, 3749>>, <<3751, 3760>>, <<3762, 3763>>, <<3773, 3773>>,
    <<3776, 3780>>, <<3782, 3782>>, <<3792, 3801>>, <<3804, 3807>>,
    <<3840, 3840>>, <<3872, 3891>>, <<3904, 3911>>, <<3913, 3948>>,
    <<3976, 3980>>, <<4096, 4138>>, <<4159, 4169>>, <<4176, 4181>>,
    <<4186, 4189>>, <<4193, 4193>>, <<4197, 4198>>, <<4206, 4208>>,
    <<4213, 4225>>, <<4238, 4238>>, <<4240, 4249>>, <<4256, 4293>>,
    <<4295, 4295>>, <<4301, 4301>>, <<4304, 4346>>, <<4348, 4680>>,
    <<4682, 4685>>, <<4688, 4694>>, <<4696, 4696>>, <<4698, 4701>>,
    <<4704, 4744>>, <<4746, 4749>>, <<4752, 4784>>, <<4786, 4789>>,
    <<4792, 4798>>, <<4800, 4800>>, <<4802, 4805>>, <<4808, 4822>>,
    <<4824, 4880>>, <<4882, 4885>>, <<4888, 4954>>, <<4969, 4988>>,
    <<4992, 5007>>, <<5024, 5109>>, <<5112, 5117>>, <<5121, 5740>>,
    <<5743, 5759>>, <<5761, 5786>>, <<5792, 5866>>, <<5870, 5880>>,
    <<5888, 5905>>, <<5919, 5937>>, <<5952, 5969>>, <<5984, 5996>>,
    <<5998, 6000>>, <<6016, 6067>>, <<6103, 6103>>, <<6108, 6108>>,
    <<6112, 6121>>, <<6128, 6137>>, <<6160, 6169>>, <<6176, 6264>>,
    <<6272, 6276>>, <<6279, 6312>>, <<6314, 6314>>, <<6320, 6389>>,
    <<6400, 6430>>, <<6470, 6509>>, <<6512, 6516>>, <<6528, 6571>>,
    <<6576, 6601>>, <<6608, 6618>>, <<6656, 6678>>, <<6688, 6740>>,
    <<6784, 6793>>, <<6800, 6809>>, <<6823, 6823>>, <<6917, 6963>>,
    <<6981, 6988>>, <<6992, 7001>>, <<7043, 7072>>, <<7086, 7141>>,
    <<7168, 7203>>, <<7232, 7241>>, <<7245, 7293>>, <<7296, 7304>>,
    <<7312, 7354>>, <<7357, 7359>>, <<7401, 7404>>, <<7406, 7411>>,
    <<7413, 7414>>, <<7418, 7418>>, <<7424, 7615>>, <<7680, 7957>>,
    <<7960, 7965>>, <<7968, 8005>>, <<8008, 8013>>, <<8016, 8023>>,
    <<8025, 8025>>, <<8027, 8027>>, <<8029, 8029>>, <<8031, 8061>>,
    <<8064, 8116>>, <<8118, 8124>>, <<8126, 8126>>, <<8130, 8132>>,
    <<8134, 8140>>, <<8144, 8147>>, <<8150, 8155>>, <<8160, 8172>>,
    <<8178, 8180>>, <<8182, 8188>>, <<8304, 8305>>, <<8308, 8313>>,
    <<8319, 8329>>, <<8336, 8348>>, <<8450, 8450>>, <<8455, 8455>>,
    <<8458, 8467>>, <<8469, 8469>>, <<8473, 8477>>, <<8484, 8484>>,
    <<8486, 8486>>, <<8488, 8488>>, <<8490, 8493>>, <<8495, 8505>>,
    <<8508, 8511>>, <<8517, 8521>>, <<8526, 8526>>, <<8528, 8585>>,
    <<9312, 9371>>, <<9450, 9471>>, <<10102, 10131>>, <<11264, 11492>>,
    <<11499, 11502>>, <<11506, 11507>>, <<11517, 11517>>, <<11520, 11557>>,
    <<11559, 11559>>, <<11565, 11565>>, <<11568, 11623>>, <<11631, 11631>>,
    <<11648, 11670>>, <<11680, 11686>>, <<11688, 11694>>, <<11696, 11702>>,
    <<11704, 11710>>, <<11712, 11718>>, <<11720, 11726>>, <<11728, 11734>>,
    <<11736, 11742>>, <<11823, 11823>>, <<12293, 12295>>, <<12321, 12329>>,
    <<12337, 12341>>, <<12344, 12348>>, <<12353, 12438>>, <<12445, 12447>>,
    <<12449, 12538>>, <<12540, 12543>>, <<12549, 12591>>, <<12593, 12686>>,
    <<12690, 12693>>, <<12704, 12735>>, <<12784, 12799>>, <<12832, 12841>>,
    <<12872, 12879>>, <<12881, 12895>>, <<12928, 12937>>, <<12977, 12991>>,
    <<13312, 19903>>, <<19968, 42124>>, <<42192, 42237>>, <<42240, 42508>>,
    <<42512, 42539>>, <<42560, 42606>>, <<42623, 42653>>, <<42656, 42735>>,
    <<42775, 42783>>, <<42786, 42888>>, <<42891, 42954>>, <<42960, 42961>>,
    <<42963, 42963>>, <<42965, 42969>>, <<42994, 43009>>, <<43011, 43013>>,
    <<43015, 43018>>, <<43020, 43042>>, <<43056, 43061>>, <<43072, 43123>>,
    <<43138, 43187>>, <<43216, 43225>>, <<43250, 43255>>, <<43259, 43259>>,
    <<43261, 43262>>, <<43264, 43301>>, <<43312, 43334>>, <<43360, 43388>>,
    <<43396, 43442>>, <<43471, 43481>>, <<43488, 43492>>, <<43494, 43518>>,
    <<43520, 43560>>, <<43584, 43586>>, <<43588, 43595>>, <<43600, 43609>>,
    <<43616, 43638>>, <<43642, 43642>>, <<43646, 43695>>, <<43697, 43697>>,
    <<43701, 43702>>, <<43705, 43709>>, <<43712, 43712>>, <<43714, 43714>>,
    <<43739, 43741>>, <<43744, 43754>>, <<43762, 43764>>, <<43777, 43782>>,
    <<43785, 43790>>, <<43793, 43798>>, <<43808, 43814>>, <<43816, 43822>>,
    <<43824, 43866>>, <<43868, 43881>>, <<43888, 44002>>, <<44016, 44025>>,
    <<44032, 55203>>, <<55216, 55238>>, <<55243, 55291>>, <<63744, 64109>>,
    <<64112, 64217>>, <<64256, 64262>>, <<64275, 64279>>, <<64285, 64285>>,
    <<64287, 64296>>, <<64298, 64310>>, <<64312, 64316>>, <<64318, 64318>>,
    <<64320, 64321>>, <<64323, 64324>>, <<64326, 64433>>, <<64467, 64829>>,
    <<64848, 64911>>, <<64914, 64967>>, <<65008, 65019>>, <<65136, 65140>>,
    <<65142, 65276>>, <<65296, 65305>>, <<65313, 65338>>, <<65345, 65370>>,
    <<65382, 65470>>, <<65474, 65479>>, <<65482, 65487>>, <<65490, 65495>>,
    <<65498, 65500>>, <<65536, 65547>>, <<65549, 65574>>, <<65576, 65594>>,
    <<65596, 65597>>, <<65599, 65613>>, <<65616, 65629>>, <<65664, 65786>>,
    <<65799, 65843>>, <<65856, 65912>>, <<65930, 65931>>, <<66176, 66204>>,
    <<66208, 66256>>, <<66273, 66299>>, <<66304, 66339>>, <<66349, 66378>>,
    <<66384, 66421>>, <<66432, 66461>>, <<66464, 66499>>, <<66504, 66511>>,
    <<66513, 66517>>, <<66560, 66717>>, <<66720, 66729>>, <<66736, 66771>>,
    <<66776, 66811>>, <<66816, 66855>>, <<66864, 66915>>, <<66928, 66938>>,
    <<66940, 66954>>, <<66956, 66962>>, <<66964, 66965>>, <<66967, 66977>>,
    <<66979, 66993>>, <<66995, 67001>>, <<67003, 67004>>, <<67072, 67382>>,
    <<67392, 67413>>, <<67424, 67431>>, <<67456, 67461>>, <<67463, 67504>>,
    <<67506, 67514>>, <<67584, 67589>>, <<67592, 67592>>, <<67594, 67637>>,
    <<67639, 67640>>, <<67644, 67644>>, <<67647, 67669>>, <<67672, 67702>>,
    <<67705, 67742>>, <<67751, 67759>>, <<67808, 67826>>, <<67828, 67829>>,
    <<67835, 67867>>, <<67872, 67897>>, <<67968, 68023>>, <<68028, 68047>>,
    <<68050, 68096>>, <<68112, 68115>>, <<68117, 68119>>, <<68121, 68149>>,
    <<68160, 68168>>, <<68192, 68222>>, <<68224, 68255>>, <<68288, 68295>>,
    <<68297, 68324>>, <<68331, 68335>>, <<68352, 68405>>, <<68416, 68437>>,
    <<68440, 68466>>, <<68472, 68497>>, <<68521, 68527>>, <<68608, 68680>>,
    <<68736, 68786>>, <<68800, 68850>>, <<68858, 68899>>, <<68912, 68921>>,
    <<69216, 69246>>, <<69248, 69289>>, <<69296, 69297>>, <<69376, 69415>>,
    <<69424, 69445>>, <<69457, 69460>>, <<69488, 69505>>, <<69552, 69579>>,
    <<69600, 69622>>, <<69635, 69687>>, <<69714, 69743>>, <<69745, 69746>>,
    <<69749, 69749>>, <<69763, 69807>>, <<69840, 69864>>, <<69872, 69881>>,
    <<69891, 69926>>, <<69942, 69951>>, <<69956, 69956>>, <<69959, 69959>>,
    <<69968, 70002>>, <<70006, 70006>>, <<70019, 70066>>, <<70081, 70084>>,
    <<70096, 70106>>, <<70108, 70108>>, <<70113, 70132>>, <<70144, 70161>>,
    <<70163, 70187>>, <<70272, 70278>>, <<70280, 70280>>, <<70282, 70285>>,
    <<70287, 70301>>, <<70303, 70312>>, <<70320, 70366>>, <<70384, 70393>>,
    <<70405, 70412>>, <<70415, 70416>>, <<70419, 70440>>, <<70442, 70448>>,
    <<70450, 70451>>, <<70453, 70457>>, <<70461, 70461>>, <<70480, 70480>>,
    <<70493, 70497>>, <<70656, 70708>>, <<70727, 70730>>, <<70736, 70745>>,
    <<70751, 70753>>, <<70784, 70831>>, <<70852, 70853>>, <<70855, 70855>>,
    <<70864, 70873>>, <<71040, 71086>>, <<71128, 71131>>, <<71168, 71215>>,
    <<71236, 71236>>, <<71248, 71257>>, <<71296, 71338>>, <<71352, 71352>>,
    <<71360, 71369>>, <<71424, 71450>>, <<71472, 71483>>, <<71488, 71494>>,
    <<71680, 71723>>, <<71840, 71922>>, <<71935, 71942>>, <<71945, 71945>>,
    <<71948, 71955>>, <<71957, 71958>>, <<71960, 71983>>, <<71999, 71999>>,
    <<72001, 72001>>, <<72016, 72025>>, <<72096, 72103>>, <<72106, 72144>>,
    <<72161, 72161>>, <<72163, 72163>>, <<72192, 72192>>, <<72203, 72242>>,
    <<72250, 72250>>, <<72272, 72272>>, <<72284, 72329>>, <<72349, 72349>>,
    <<72368, 72440>>, <<72704, 72712>>, <<72714, 72750>>, <<72768, 72768>>,
    <<72784, 72812>>, <<72818, 72847>>, <<72960, 72966>>, <<72968, 72969>>,
    <<72971, 73008>>, <<73030, 73030>>, <<73040, 73049>>, <<73056, 73061>>,
    <<73063, 73064>>, <<73066, 73097>>, <<73112, 73112>>, <<73120, 73129>>,
    <<73440, 73458>>, <<73648, 73648>>, <<73664, 73684>>, <<73728, 74649>>,
    <<74752, 74862>>, <<74880, 75075>>, <<77712, 77808>>, <<77824, 78894>>,
    <<82944, 83526>>, <<92160, 92728>>, <<92736, 92766>>, <<92768, 92777>>,
    <<92784, 92862>>, <<92864, 92873>>, <<92880, 92909>>, <<92928, 92975>>,
    <<92992, 92995>>, <<93008, 93017>>, <<93019, 93025>>, <<93027, 93047>>,
    <<93053, 93071>>, <<93760, 93846>>, <<93952, 94026>>, <<94032, 94032>>,
    <<94099, 94111>>, <<94176, 94177>>, <<94179, 94179>>, <<94208, 100343>>,
    <<100352, 101589>>, <<101632, 101640>>, <<110576, 110579>>,
    <<110581, 110587>>, <<110589, 110590>>, <<110592, 110882>>,
    <<110928, 110930>>, <<110948, 110951>>, <<110960, 111355>>,
    <<113664, 113770>>, <<113776, 113788>>, <<113792, 113800>>,
    <<113808, 113817>>, <<119520, 119539>>, <<119648, 119672>>,
    <<119808, 119892>>, <<119894, 119964>>, <<119966, 119967>>,
    <<119970, 119970>>, <<119973, 119974>>, <<119977, 119980>>,
    <<119982, 119993>>, <<119995, 119995>>, <<119997, 120003>>,
    <<120005, 120069>>, <<120071, 120074>>, <<120077, 120084>>,
    <<120086, 120092>>, <<120094, 120121>>, <<120123, 120126>>,
    <<120128, 120132>>, <<120134, 120134>>, <<120138, 120144>>,
    <<120146, 120485>>, <<120488, 120512>>, <<120514, 120538>>,
    <<120540, 120570>>, <<120572, 120596>>, <<120598, 120628>>,
    <<120630, 120654>>, <<120656, 120686>>, <<120688, 120712>>,
    <<120714, 120744>>, <<120746, 120770>>, <<120772, 120779>>,
    <<120782, 120831>>, <<122624, 122654>>, <<123136, 123180>>,
    <<123191, 123197>>, <<123200, 123209>>, <<123214, 123214>>,
    <<123536, 123565>>, <<123584, 123627>>, <<123632, 123641>>,
    <<124896, 124902>>, <<124904, 124907>>, <<124909, 124910>>,
    <<124912, 124926>>, <<124928, 125124>>, <<125127, 125135>>,
    <<125184, 125251>>, <<125259, 125259>>, <<125264, 125273>>,
    <<126065, 126123>>, <<126125, 126127>>, <<126129, 126132>>,
    <<126209, 126253>>, <<126255, 126269>>, <<126464, 126467>>,
    <<126469, 126495>>, <<126497, 126498>>, <<126500, 126500>>,
    <<126503, 126503>>, <<126505, 126514>>, <<126516, 126519>>,
    <<126521, 126521>>, <<126523, 126523>>, <<126530, 126530>>,
    <<126535, 126535>>, <<126537, 126537>>, <<126539, 126539>>,
    <<126541, 126543>>, <<126545, 126546>>, <<126548, 126548>>,
    <<126551, 126551>>, <<126553, 126553>>, <<126555, 126555>>,
    <<126557, 126557>>, <<126559, 126559>>, <<126561, 126562>>,
    <<126564, 126564>>, <<126567, 126570>>, <<126572, 126578>>,
    <<126580, 126583>>, <<126585, 126588>>, <<126590, 126590>>,
    <<126592, 126601>>, <<126603, 126619>>, <<126625, 126627>>,
    <<126629, 126633>>, <<126635, 126651>>, <<127232, 127244>>,
    <<130032, 130041>>, <<131072, 173791>>, <<173824, 177976>>,
    <<177984, 178205>>, <<178208, 183969>>, <<183984, 191456>>,
    <<194560, 195101>>, <<196608, 201546>> }

\* \w : [a-zA-Z0-9_] and every character str.isalnum() accepts.
IsWord(c) ==
    IF c < 128
    THEN c \in 48..57 \/ c \in 65..90 \/ c = 95 \/ c \in 97..122
    ELSE \E r \in WordRanges : r[1] <= c /\ c <= r[2]

\* \s : every character str.isspace() accepts.
IsSpace(c) ==
    \/ c \in 9..13
    \/ c \in 28..32
    \/ c \in {133, 160, 5760, 8232, 8233, 8239, 8287, 12288}
    \/ c \in 8192..8202

(***************************************************************************)
(* utils.py: fix_encoding_issues                                           *)
(***************************************************************************)

\* str.encode("latin1") raises UnicodeEncodeError above U+00FF.
Latin1Encodable(text) == \A i \in 1..Len(text) : text[i] <= 255

IsCont(b) == b \in 128..191

\* Number of bytes of the UTF-8 sequence a lead byte starts, 0 if the byte
\* cannot start one.
Utf8Need(b) ==
    IF b <= 127 THEN 1
    ELSE IF b \in 194..223 THEN 2
    ELSE IF b \in 224..239 THEN 3
    ELSE IF b \in 240..244 THEN 4
    ELSE 0

\* The second byte's range, which excludes overlong forms, surrogates and
\* code points above U+10FFFF.
Utf8SecondOK(b0, b1) ==
    IF b0 = 224 THEN b1 \in 160..191
    ELSE IF b0 = 237 THEN b1 \in 128..159
    ELSE IF b0 = 240 THEN b1 \in 144..191
    ELSE IF b0 = 244 THEN b1 \in 128..143
    ELSE IsCont(b1)

Utf8Point(b, n) ==
    IF n = 1 THEN b[1]
    ELSE IF n = 2 THEN (b[1] - 192) * 64 + (b[2] - 128)
    ELSE IF n = 3 THEN (b[1] - 224) * 4096 + (b[2] - 128) * 64 + (b[3] - 128)
    ELSE (b[1] - 240) * 262144 + (b[2] - 128) * 4096
             + (b[3] - 128) * 64 + (b[4] - 128)

\* bytes.decode("utf-8"), strict: [ok |-> FALSE] stands for UnicodeDecodeError.
RECURSIVE Utf8Decode(_)
Utf8Decode(b) ==
    IF b = <<>> THEN [ok |-> TRUE, out |-> <<>>]
    ELSE LET n == Utf8Need(b[1])
         IN  IF \/ n = 0
                \/ Len(b) < n
                \/ (n >= 2 /\ ~Utf8SecondOK(b[1], b[2]))
                \/ (n >= 3 /\ ~IsCont(b[3]))
                \/ (n >= 4 /\ ~IsCont(b[4]))
             THEN [ok |-> FALSE, out |-> <<>>]
             ELSE LET rest == Utf8Decode(SubSeq(b, n + 1, Len(b)))
                  IN  IF rest.ok
                      THEN [ok |-> TRUE, out |-> <<Utf8Point(b, n)>> \o rest.out]
                      ELSE rest

fix_encoding_issues(text) ==
    IF ~Latin1Encodable(text) THEN text
    ELSE LET d == Utf8Decode(text)
         IN  IF d.ok THEN d.out ELSE text

(***************************************************************************)
(* utils.py: replace_problematic_sequences                                 *)
(***************************************************************************)

\* The replacements dict, in insertion order.
Replacements ==
    << <<(<<226, 128, 153>>), <<8217>>>>,
       <<(<<226, 128, 156>>), <<8220>>>>,
       <<(<<226, 128, 157>>), <<8221>>>>,
       <<(<<226, 128, 147>>), <<8211>>>>,
       <<(<<226, 128, 148>>), <<8212>>>>,
       <<(<<226, 128, 166>>), <<8230>>>> >>

\* str.replace: leftmost, non-overlapping occurrences.
RECURSIVE StrReplace(_, _, _)
StrReplace(text, old, new) ==
    IF Len(text) < Len(old) THEN text
    ELSE IF SubSeq(text, 1, Len(old)) = old
         THEN new \o StrReplace(SubSeq(text, Len(old) + 1, Len(text)), old, new)
         ELSE <<text[1]>> \o StrReplace(Tail(text), old, new)

RECURSIVE ReplaceFrom(_, _)
ReplaceFrom(text, k) ==
    IF k > Len(Replacements) THEN text
    ELSE ReplaceFrom(StrReplace(text, Replacements[k][1], Replacements[k][2]), k + 1)

replace_problematic_sequences(text) == ReplaceFrom(text, 1)

(***************************************************************************)
(* utils.py: remove_html_tags, re.sub(r"<[^>]+>", "", text)                *)
(***************************************************************************)

\* Index of the first ">" of text, 0 if there is none.
FirstGt(text) ==
    IF \E i \in 1..Len(text) : text[i] = 62
    THEN CHOOSE i \in 1..Len(text) :
             /\ text[i] = 62
             /\ \A j \in 1..(i - 1) : text[j] # 62
    ELSE 0

RECURSIVE remove_html_tags(_)
remove_html_tags(text) ==
    IF text = <<>> THEN <<>>
    ELSE IF text[1] = 60 /\ FirstGt(text) >= 3
         THEN remove_html_tags(SubSeq(text, FirstGt(text) + 1, Len(text)))
         ELSE <<text[1]>> \o remove_html_tags(Tail(text))

(***************************************************************************)
(* utils.py: remove_unwanted_characters, re.sub(r"[^\w\s'-“”’&]", "", t)   *)
(***************************************************************************)

\* A range with no upper end.
KeptCharacter_OpenRange(c) ==
    IsWord(c) \/ IsSpace(c) \/ c >= 39 \/ c = 38

\* The class is negated; inside it '-“ is the range U+0027..U+201C.
KeptCharacter(c) ==
    \/ IsWord(c)
    \/ IsSpace(c)
    \/ c \in 39..8220
    \/ c = 8221
    \/ c = 8217
    \/ c = 38

remove_unwanted_characters(text) == SelectSeq(text, KeptCharacter)

(***************************************************************************)
(* utils.py: normalize_whitespace, re.sub(r"\s+", " ", text).strip()       *)
(***************************************************************************)

RECURSIVE DropSpaces(_)
DropSpaces(text) ==
    IF text # <<>> /\ IsSpace(text[1]) THEN DropSpaces(Tail(text)) ELSE text

RECURSIVE CollapseSpaces(_)
CollapseSpaces(text) ==
    IF text = <<>> THEN <<>>
    ELSE IF IsSpace(text[1])
         THEN <<32>> \o CollapseSpaces(DropSpaces(text))
         ELSE <<text[1]>> \o CollapseSpaces(Tail(text))

RECURSIVE DropTrailingSpaces(_)
DropTrailingSpaces(text) ==
    IF text # <<>> /\ IsSpace(text[Len(text)])
    THEN DropTrailingSpaces(SubSeq(text, 1, Len(text) - 1))
    ELSE text

Strip(text) == DropTrailingSpaces(DropSpaces(text))

normalize_whitespace(text) == Strip(CollapseSpaces(text))

(***************************************************************************)
(* utils.py: clean_title                                                   *)
(***************************************************************************)
\* The last two steps in the other order.
clean_title_FilterLast(t) ==
    remove_unwanted_characters(
        normalize_whitespace(
            replace_problematic_sequences(
                fix_encoding_issues(
                    remove_html_tags(t)))))

clean_title(t) ==
    normalize_whitespace(
        remove_unwanted_characters(
            replace_problematic_sequences(
                fix_encoding_issues(
                    remove_html_tags(t)))))

(***************************************************************************)
(* app.py: the probe, RSSScraper.verify_and_extract_titles                 *)
(***************************************************************************)

\* "sub in text" on str.
Contains(text, sub) ==
    \E i \in 1..(Len(text) - Len(sub) + 1) :
        SubSeq(text, i, i + Len(sub) - 1) = sub

Xml == <<120, 109, 108>>
Rss == <<114, 115, 115>>

\* What the call returns to its future: a (url, titles) pair, or an
\* exception that left the function.
Returned(url, titles) ==
    [kind |-> "return", url |-> url, titles |-> titles, exc |-> "none"]
Raised(exc) ==
    [kind |-> "raise", url |-> 0, titles |-> <<>>, exc |-> exc]
NoOutcome ==
    [kind |-> "none", url |-> 0, titles |-> <<>>, exc |-> "none"]

\* The entries a site's body parses to.  An entry is [has_title, title];
\* reading entry.title of an entry without one raises AttributeError.
\* feed.entries[:num_titles]: a negative stop counts from the end.
FirstEntries(entries, num_titles) ==
    IF num_titles >= 0
    THEN SubSeq(entries, 1, Min(num_titles, Len(entries)))
    ELSE SubSeq(entries, 1, Len(entries) + num_titles)

\* [clean_title(entry.title) for entry in ... if entry.title]
RECURSIVE CleanedTitles(_)
CleanedTitles(entries) ==
    IF entries = <<>> THEN <<>>
    ELSE IF Head(entries).title # <<>>
         THEN <<clean_title(Head(entries).title)>> \o CleanedTitles(Tail(entries))
         ELSE CleanedTitles(Tail(entries))

\* response.status_code == 200
StatusOK(status) == status = 200

\* "xml" in content_type or "rss" in content_type
IsFeedContentType(content_type) ==
    Contains(content_type, Xml) \/ Contains(content_type, Rss)

\* A site is what requests.get and feedparser.parse give for a URL:
\* behaviour "request_exception" (requests.get raises a RequestException,
\* a timeout included), "respond" (status, content_type, entries) or
\* "hang" (the call never returns, which no operator below covers).
verify_and_extract_titles(url, s, num_titles) ==
    IF s.behaviour = "request_exception" THEN Returned(url, <<>>)
    ELSE IF StatusOK(s.status) /\ IsFeedContentType(s.content_type)
         THEN LET first == FirstEntries(s.entries, num_titles)
              IN  IF \E i \in 1..Len(first) : ~first[i].has_title
                  THEN Raised("AttributeError")
                  ELSE Returned(url, CleanedTitles(first))
         ELSE Returned(url, <<>>)

(***************************************************************************)
(* Sample sites and feeds.                                                 *)
(***************************************************************************)
Titled(t) == [has_title |-> TRUE, title |-> t]
Untitled == [has_title |-> FALSE, title |-> <<>>]

RssXml == <<97, 112, 112, 108, 105, 99, 97, 116, 105, 111, 110, 47,
            114, 115, 115, 43, 120, 109, 108>>
TextXml == <<116, 101, 120, 116, 47, 120, 109, 108>>
TextHtml == <<116, 101, 120, 116, 47, 104, 116, 109, 108>>

\* "Top story", "Top news 1", "<b>Top story</b>", "Markets rally!"
TopStory == <<84, 111, 112, 32, 115, 116, 111, 114, 121>>
TopNews1 == <<84, 111, 112, 32, 110, 101, 119, 115, 32, 49>>
BoldTopStory == <<60, 98, 62, 84, 111, 112, 32, 115, 116, 111, 114, 121,
                  60, 47, 98, 62>>
MarketsRally == <<77, 97, 114, 107, 101, 116, 115, 32, 114, 97, 108, 108,
                  121, 33>>

Respond(status, content_type, entries) ==
    [behaviour |-> "respond", status |-> status,
     content_type |-> content_type, entries |-> entries]
SiteError ==
    [behaviour |-> "request_exception", status |-> 0,
     content_type |-> <<>>, entries |-> <<>>]
SiteHang ==
    [behaviour |-> "hang", status |-> 0,
     content_type |-> <<>>, entries |-> <<>>]

Feed2 == <<Titled(TopStory), Titled(TopNews1)>>
Feed3 == <<Titled(BoldTopStory), Titled(<<>>), Titled(TopNews1),
           Titled(MarketsRally)>>

Sites ==
    { SiteError,
      SiteHang,
      Respond(404, RssXml, Feed2),
      Respond(200, TextHtml, Feed2),
      Respond(200, RssXml, <<>>),
      Respond(200, TextXml, <<Titled(TopStory), Untitled>>),
      Respond(200, RssXml, Feed2),
      Respond(200, TextXml, Feed3) }

(***************************************************************************)
(* State.                                                                  *)
(***************************************************************************)
VARIABLES
    urls,           \* self.urls
    rss_content,    \* self.rss_content
    pc,             \* where the main thread is
    runs,           \* calls of extract_data so far
    num_threads,    \* extract_data's argument
    num_valid_urls, \* extract_data's local
    queue,          \* the executor's work queue
    fut,            \* per submitted entry of self.urls: its future
    site,           \* per running probe: what its URL answers this time
    yielded,        \* the futures as_completed has handed out
    stats,          \* the statistics lines the last extract_data logged
    error,          \* the exception that left extract_data, "none" if none
    probe_calls,    \* per entry of self.urls, calls of the probe in this run
    collected,      \* per entry of self.urls, results the main loop took
    findings,       \* the warnings the last run_data_check logged
    raw, title, retitle, stage,     \* clean_title, called twice
    p_site, p_num_titles, p_out     \* one verify_and_extract_titles call

sched_vars == <<urls, rss_content, pc, runs, num_threads, num_valid_urls, queue,
                fut, site, yielded, stats, error, probe_calls, collected,
                findings>>
clean_vars == <<raw, title, retitle, stage>>
probe_vars == <<p_site, p_num_titles, p_out>>
vars == <<sched_vars, clean_vars, probe_vars>>

\* num_titles: int = 5
DefaultNumTitles == 5
\* len(title) < 10
ShortTitleLen == 10
\* len(titles) < 3
SparseFeedLen == 3

\* No probe running for the entry.
NoSite ==
    [behaviour |-> "none", status |-> 0, content_type |-> <<>>, entries |-> <<>>]

\* RSSScraper.__init__
Constructed ==
    /\ urls = <<>>
    /\ rss_content = <<>>
    /\ pc = "idle"
    /\ runs = 0
    /\ num_threads = 0
    /\ num_valid_urls = 0
    /\ queue = <<>>
    /\ fut = <<>>
    /\ site = <<>>
    /\ yielded = {}
    /\ stats = <<>>
    /\ error = "none"
    /\ probe_calls = <<>>
    /\ collected = <<>>
    /\ findings = {}

CleanIdle == raw = <<>> /\ title = <<>> /\ retitle = <<>> /\ stage = 0

ProbeIdle == p_site = SiteError /\ p_num_titles = 0 /\ p_out = NoOutcome

Init == Constructed /\ CleanIdle /\ ProbeIdle

\* No method of the scraper is running: pc names the one that ended last
\* ("returned" and "raised" for extract_data).
AtRest == pc \in {"idle", "extracted", "returned", "raised", "checked"}

(***************************************************************************)
(* app.py: RSSScraper.extract_urls                                         *)
(***************************************************************************)

\* The URLs a PDF can hold.
UrlNames == 1..MaxUrlNames

\* The orders list(set(urls)) can give: every list holding each URL of the
\* set once.
Orders(S) ==
    {o \in [1..Cardinality(S) -> S] : \A u \in S : \E i \in DOMAIN o : o[i] = u}

\* self.urls.extend(list(set(urls))), urls being the matches found in the
\* PDF: any set of URLs, the empty one included, in any order.
extract_urls ==
    /\ AtRest
    /\ \E S \in SUBSET UrlNames :
         /\ Len(urls) + Cardinality(S) <= MaxUrls
         /\ \E o \in Orders(S) : urls' = urls \o o
    /\ pc' = "extracted"
    /\ UNCHANGED <<rss_content, runs, num_threads, num_valid_urls, queue,
                   fut, site, yielded, stats, error, probe_calls, collected,
                   findings>>
    /\ UNCHANGED <<clean_vars, probe_vars>>

(***************************************************************************)
(* app.py: RSSScraper.extract_data                                         *)
(***************************************************************************)
Futures == DOMAIN fut

Running == {i \in Futures : fut[i].state = "running"}

\* ThreadPoolExecutor(max_workers=num_threads): a task leaves the queue only
\* when fewer than num_threads are running.
WorkerAvailable_ThreadPerTask == TRUE
WorkerAvailable == Cardinality(Running) < num_threads

\* The for loop over as_completed(future_to_url) ends when every future has
\* been yielded.
AllYielded == yielded = Futures

\* if titles:
IsValid(titles) == titles # <<>>

\* self.rss_content[url] = titles
Store(mapping, url, titles) ==
    [u \in (DOMAIN mapping) \cup {url} |->
        IF u = url THEN titles ELSE mapping[u]]

\* The call: num_valid_urls = 0 and the executor is made, which raises
\* ValueError unless max_workers > 0.
ExtractDataCall ==
    /\ AtRest
    /\ runs < MaxRuns
    /\ runs' = runs + 1
    /\ num_threads' \in 0..MaxThreads
    /\ num_valid_urls' = 0
    /\ queue' = <<>>
    /\ yielded' = {}
    /\ stats' = <<>>
    /\ probe_calls' = [i \in 1..Len(urls) |-> 0]
    /\ collected' = [i \in 1..Len(urls) |-> 0]
    /\ fut' = [i \in 1..Len(urls) |-> [state |-> "unsubmitted", out |-> NoOutcome]]
    /\ site' = [i \in 1..Len(urls) |-> NoSite]
    /\ IF num_threads' <= 0
       THEN pc' = "raised" /\ error' = "ValueError"
       ELSE pc' = "submit" /\ error' = "none"
    /\ UNCHANGED <<urls, rss_content, findings>>
    /\ UNCHANGED <<clean_vars, probe_vars>>

\* executor.submit(self.verify_and_extract_titles, url), for url in self.urls
Submit ==
    /\ pc = "submit"
    /\ \E i \in Futures :
         /\ fut[i].state = "unsubmitted"
         /\ \A j \in 1..(i - 1) : fut[j].state # "unsubmitted"
         /\ fut' = [fut EXCEPT ![i].state = "pending"]
         /\ queue' = Append(queue, i)
    /\ UNCHANGED <<urls, rss_content, pc, runs, num_threads, num_valid_urls,
                   site, yielded, stats, error, probe_calls, collected,
                   findings>>
    /\ UNCHANGED <<clean_vars, probe_vars>>

\* The comprehension is over; the for loop over as_completed starts.
SubmitDone ==
    /\ pc = "submit"
    /\ \A i \in Futures : fut[i].state # "unsubmitted"
    /\ pc' = "collect"
    /\ UNCHANGED <<urls, rss_content, runs, num_threads, num_valid_urls, queue,
                   fut, site, yielded, stats, error, probe_calls, collected,
                   findings>>
    /\ UNCHANGED <<clean_vars, probe_vars>>

\* A worker thread takes the oldest queued task and calls the probe, which
\* meets whatever the URL answers at that time.
WorkerTake ==
    /\ queue # <<>>
    /\ WorkerAvailable
    /\ LET i == Head(queue)
       IN  /\ fut' = [fut EXCEPT ![i].state = "running"]
           /\ probe_calls' = [probe_calls EXCEPT ![i] = @ + 1]
           /\ \E s \in Sites : site' = [site EXCEPT ![i] = s]
    /\ queue' = Tail(queue)
    /\ UNCHANGED <<urls, rss_content, pc, runs, num_threads, num_valid_urls,
                   yielded, stats, error, collected, findings>>
    /\ UNCHANGED <<clean_vars, probe_vars>>

\* The probe of a running task ends, by return or by exception.  Nothing
\* ends a call that hangs: requests.get's timeout=5 is the only time limit,
\* and a call it times out raises a RequestException.
ProbeEnds(i) ==
    /\ fut[i].state = "running"
    /\ site[i].behaviour # "hang"
    /\ fut' = [fut EXCEPT ![i] =
                 [state |-> "finished",
                  out |-> verify_and_extract_titles(urls[i], site[i],
                                                    DefaultNumTitles)]]
    /\ site' = [site EXCEPT ![i] = NoSite]
    /\ UNCHANGED <<urls, rss_content, pc, runs, num_threads, num_valid_urls,
                   queue, yielded, stats, error, probe_calls, collected,
                   findings>>
    /\ UNCHANGED <<clean_vars, probe_vars>>

\* One turn of the for loop: as_completed yields a finished future and
\* future.result() returns its pair or raises its exception.
Collect(i) ==
    /\ pc = "collect"
    /\ fut[i].state = "finished"
    /\ i \notin yielded
    /\ yielded' = yielded \cup {i}
    /\ collected' = [collected EXCEPT ![i] = @ + 1]
    /\ LET out == fut[i].out
       IN  IF out.kind = "raise"
           THEN /\ pc' = "shutdown"
                /\ error' = out.exc
                /\ UNCHANGED <<rss_content, num_valid_urls>>
           ELSE /\ UNCHANGED <<pc, error>>
                /\ IF IsValid(out.titles)
                   THEN /\ rss_content' = Store(rss_content, out.url, out.titles)
                        /\ num_valid_urls' = num_valid_urls + 1
                   ELSE UNCHANGED <<rss_content, num_valid_urls>>
    /\ UNCHANGED <<urls, runs, num_threads, queue, fut, site, stats,
                   probe_calls, findings>>
    /\ UNCHANGED <<clean_vars, probe_vars>>

\* The for loop ends.
LoopDone ==
    /\ pc = "collect"
    /\ AllYielded
    /\ pc' = "shutdown"
    /\ UNCHANGED <<urls, rss_content, runs, num_threads, num_valid_urls, queue,
                   fut, site, yielded, stats, error, probe_calls, collected,
                   findings>>
    /\ UNCHANGED <<clean_vars, probe_vars>>

\* Leaving the with block: executor.shutdown(wait=True) returns once every
\* submitted task has run; a pending exception then leaves extract_data.
ExitWith ==
    /\ pc = "shutdown"
    /\ \A i \in Futures : fut[i].state = "finished"
    /\ pc' = IF error = "none" THEN "stats" ELSE "raised"
    /\ UNCHANGED <<urls, rss_content, runs, num_threads, num_valid_urls, queue,
                   fut, site, yielded, stats, error, probe_calls, collected,
                   findings>>
    /\ UNCHANGED <<clean_vars, probe_vars>>

\* The significant bits of a Python float (an IEEE 754 double).
DoubleBits == 53

\* The binary digits of a natural number, the most significant first.
RECURSIVE Bits(_)
Bits(n) == IF n = 0 THEN <<>> ELSE Append(Bits(n \div 2), n % 2)

\* The natural number of a sequence of binary digits.
RECURSIVE ToNat(_)
ToNat(bits) ==
    IF bits = <<>> THEN 0
    ELSE 2 * ToNat(SubSeq(bits, 1, Len(bits) - 1)) + bits[Len(bits)]

AnyOne(bits) == \E i \in 1..Len(bits) : bits[i] = 1

\* bits + 1
RECURSIVE Inc(_)
Inc(bits) ==
    IF bits = <<>> THEN <<1>>
    ELSE IF bits[Len(bits)] = 0
         THEN Append(SubSeq(bits, 1, Len(bits) - 1), 1)
         ELSE Append(Inc(SubSeq(bits, 1, Len(bits) - 1)), 0)

\* A sequence of binary digits without its leading zeros.
StripZeros(bits) ==
    LET ones == {i \in 1..Len(bits) : bits[i] = 1}
    IN  IF ones = {} THEN <<>>
        ELSE SubSeq(bits, CHOOSE i \in ones : \A j \in ones : i <= j, Len(bits))

\* The last n digits and the digits before them.
Low(bits, n) == SubSeq(bits, Len(bits) - Min(n, Len(bits)) + 1, Len(bits))
High(bits, n) == SubSeq(bits, 1, Len(bits) - Min(n, Len(bits)))

\* The digits of a multiplication are worked out in limbs of LimbBits bits.
LimbBits == 20
Limb == 2 ^ LimbBits

\* The LimbBits binary digits of a natural number below Limb.
LimbDigits(n) == [i \in 1..LimbBits |-> (n \div 2 ^ (LimbBits - i)) % 2]

\* bits * 100, for at most 3 * LimbBits digits.
Times100(bits) ==
    LET lo == ToNat(Low(bits, LimbBits)) * 100
        mid == ToNat(Low(High(bits, LimbBits), LimbBits)) * 100 + lo \div Limb
        hi == ToNat(High(bits, 2 * LimbBits)) * 100 + mid \div Limb
    IN  StripZeros(Bits(hi) \o LimbDigits(mid % Limb) \o LimbDigits(lo % Limb))

\* A float is [m, s]: the number m * 2^(-s), m a sequence of at most
\* DoubleBits binary digits.
\* The float nearest to bits * 2^(-s) (plus a nonzero rest below the last
\* digit when sticky), a tie to the even one.
RoundToDouble(bits, s, sticky) ==
    IF Len(bits) <= DoubleBits THEN [m |-> bits, s |-> s]
    ELSE LET kept == SubSeq(bits, 1, DoubleBits)
             dropped == Len(bits) - DoubleBits
             half == bits[DoubleBits + 1] = 1
             rest == sticky \/ AnyOne(SubSeq(bits, DoubleBits + 2, Len(bits)))
             up == half /\ (rest \/ kept[DoubleBits] = 1)
             m == IF up THEN Inc(kept) ELSE kept
         IN  IF Len(m) > DoubleBits
             THEN [m |-> SubSeq(m, 1, DoubleBits), s |-> s - dropped - 1]
             ELSE [m |-> m, s |-> s - dropped]

\* The binary expansion of a quotient, digit by digit, until the remainder r
\* is 0 or one digit more than a float holds is known.
RECURSIVE DivBits(_, _, _, _)
DivBits(r, total, bits, s) ==
    IF r = 0 \/ Len(bits) > DoubleBits
    THEN [bits |-> bits, s |-> s, sticky |-> r # 0]
    ELSE LET b == IF 2 * r >= total THEN 1 ELSE 0
         IN  DivBits(2 * r - b * total, total,
                     IF bits = <<>> /\ b = 0 THEN <<>> ELSE Append(bits, b),
                     s + 1)

\* valid / total
FloatDiv(valid, total) ==
    LET d == DivBits(valid % total, total, Bits(valid \div total), 0)
    IN  RoundToDouble(d.bits, d.s, d.sticky)

\* x * 100
FloatTimes100(x) == RoundToDouble(Times100(x.m), x.s, FALSE)

\* "%.2f" % x, in hundredths: the integer nearest to x * 100, a tie to the
\* even one.
FormatX100(x) ==
    LET bits == Times100(x.m)
        n == Len(bits) - x.s
        whole == IF x.s <= 0
                 THEN ToNat(bits \o [i \in 1..(-x.s) |-> 0])
                 ELSE IF n <= 0 THEN 0 ELSE ToNat(SubSeq(bits, 1, n))
        half == x.s > 0 /\ n >= 0 /\ bits[n + 1] = 1
        rest == x.s > 0 /\
                    IF n >= 0 THEN AnyOne(SubSeq(bits, n + 2, Len(bits)))
                    ELSE AnyOne(bits)
    IN  IF half /\ (rest \/ whole % 2 = 1) THEN whole + 1 ELSE whole

\* "%.2f" % ((valid / total) * 100), in hundredths: a float division, a
\* float multiplication and the rounding of the format, in that order.
PercentX100(valid, total) == FormatX100(FloatTimes100(FloatDiv(valid, total)))

\* The three logging.info calls, in order; the arguments of the third
\* divide by len(self.urls), after the first two lines are logged.
ComputeStats ==
    /\ pc = "stats"
    /\ LET two == << <<"valid", num_valid_urls>>, <<"total", Len(urls)>> >>
       IN  IF Len(urls) = 0
           THEN /\ pc' = "raised"
                /\ error' = "ZeroDivisionError"
                /\ stats' = two
           ELSE /\ pc' = "returned"
                /\ error' = error
                /\ stats' = Append(two,
                       <<"percent_x100", PercentX100(num_valid_urls, Len(urls))>>)
    /\ UNCHANGED <<urls, rss_content, runs, num_threads, num_valid_urls, queue,
                   fut, site, yielded, probe_calls, collected, findings>>
    /\ UNCHANGED <<clean_vars, probe_vars>>

(***************************************************************************)
(* app.py: RSSScraper.run_data_check                                       *)
(***************************************************************************)
Finding(kind, url, t) == [kind |-> kind, url |-> url, title |-> t]

\* len(title) < 10
TitleTooShort_OffByOne(t) == Len(t) <= ShortTitleLen
TitleTooShort(t) == Len(t) < ShortTitleLen

\* len(titles) < 3
TooFewTitles(titles) == Len(titles) < SparseFeedLen

\* The warnings logged for one (url, titles) item.
FeedFindings(url, titles) ==
    IF titles = <<>>
    THEN {Finding("EmptyTitles", url, <<>>)}
    ELSE {Finding("ShortTitle", url, titles[k]) :
              k \in {j \in 1..Len(titles) : TitleTooShort(titles[j])}}
         \cup (IF TooFewTitles(titles)
               THEN {Finding("SparseFeed", url, <<>>)}
               ELSE {})

run_data_check ==
    /\ AtRest
    /\ findings' = UNION {FeedFindings(u, rss_content[u]) : u \in DOMAIN rss_content}
    /\ pc' = "checked"
    /\ UNCHANGED <<urls, rss_content, runs, num_threads, num_valid_urls, queue,
                   fut, site, yielded, stats, error, probe_calls, collected>>
    /\ UNCHANGED <<clean_vars, probe_vars>>

Next ==
    \/ extract_urls
    \/ ExtractDataCall
    \/ Submit
    \/ SubmitDone
    \/ WorkerTake
    \/ \E i \in Futures : ProbeEnds(i)
    \/ \E i \in Futures : Collect(i)
    \/ LoopDone
    \/ ExitWith
    \/ ComputeStats
    \/ run_data_check

Spec == Init /\ [][Next]_vars

(***************************************************************************)
(* One call of clean_title, and a second call on its result.               *)
(***************************************************************************)

\* a, space, <, >, !, :, the Latin-1 characters the UTF-8 bytes of "é"
\* (C3 A9) and of "—" (E2 80 94) decode to, an emoji (U+1F4B0), the line
\* separator U+2028 and the hiragana letter U+3042.
Alphabet ==
    {97, 32, 60, 62, 33, 58, 195, 169, 226, 128, 148, 128176, 8232, 12354}

InitClean ==
    /\ raw \in BoundedSeq(Alphabet, MaxLen)
    /\ title = <<>>
    /\ retitle = <<>>
    /\ stage = 0
    /\ Constructed
    /\ ProbeIdle

\* title = clean_title(raw)
CleanTitle ==
    /\ stage = 0
    /\ title' = clean_title(raw)
    /\ stage' = 1
    /\ UNCHANGED <<raw, retitle, sched_vars, probe_vars>>

\* clean_title(title), the cleaned title cleaned again
CleanAgain ==
    /\ stage = 1
    /\ retitle' = clean_title(title)
    /\ stage' = 2
    /\ UNCHANGED <<raw, title, sched_vars, probe_vars>>

NextClean == CleanTitle \/ CleanAgain

SpecClean == InitClean /\ [][NextClean]_vars

(***************************************************************************)
(* One call of verify_and_extract_titles.                                  *)
(***************************************************************************)

\* An entry without a title, one with an empty title, "a", "b!" and "!".
EntryKinds == {Untitled, Titled(<<>>), Titled(<<97>>), Titled(<<98, 33>>),
               Titled(<<33>>)}

ProbeSites ==
    {Respond(200, RssXml, e) : e \in BoundedSeq(EntryKinds, MaxEntries)}
        \cup (Sites \ {SiteHang})
        \cup {Respond(200, <<>>, Feed2)}

InitProbe ==
    /\ p_site \in ProbeSites
    /\ p_num_titles \in (-1)..MaxNumTitles
    /\ p_out = NoOutcome
    /\ Constructed
    /\ CleanIdle

ProbeCall ==
    /\ p_out.kind = "none"
    /\ p_out' = verify_and_extract_titles(1, p_site, p_num_titles)
    /\ UNCHANGED <<p_site, p_num_titles, sched_vars, clean_vars>>

NextProbe == ProbeCall

SpecProbe == InitProbe /\ [][NextProbe]_vars

(***************************************************************************)
(* Properties.                                                             *)
(***************************************************************************)

Finished(i) == fut[i].state = "finished"

\* An outcome that is Invalid: an exception, or no titles.
InvalidOutcome(out) == out.kind # "return" \/ out.titles = <<>>

\* The entries of self.urls that hold the URL u.
EntriesOf(u) == {i \in DOMAIN urls : urls[i] = u}

RECURSIVE SumOver(_, _)
SumOver(f, S) ==
    IF S = {} THEN 0
    ELSE LET i == CHOOSE j \in S : TRUE
         IN  f[i] + SumOver(f, S \ {i})

\* C1: when extract_data returns, every URL of self.urls has been probed
\* exactly once and its outcome collected exactly once (none skipped, none
\* processed twice), and the statistics are never computed while a
\* submitted probe is still queued or running.
C1_EveryUrlResolvedOnce ==
    /\ pc = "returned" =>
         \A u \in Range(urls) :
             /\ SumOver(probe_calls, EntriesOf(u)) = 1
             /\ SumOver(collected, EntriesOf(u)) = 1
    /\ pc \in {"stats", "returned"} =>
         \A i \in Futures : Finished(i) /\ i \in yielded

\* C2: a failure inside one probe task never leaves the task: every finished
\* task has returned a pair, and no exception of a probe ends extract_data.
C2_ProbeFailureContained ==
    /\ \A i \in Futures : Finished(i) => fut[i].out.kind = "return"
    /\ error # "AttributeError"

\* C3: a probe that never returns is still resolved, and does not hold up
\* the run: every running probe can end, and a run that has started can
\* always go on until it has completed.
C3_HangingProbeResolved ==
    /\ \A i \in Futures : fut[i].state = "running" => ENABLED ProbeEnds(i)
    /\ ~AtRest =>
         ENABLED (\/ Submit \/ SubmitDone \/ WorkerTake
                  \/ \E i \in Futures : ProbeEnds(i)
                  \/ \E i \in Futures : Collect(i)
                  \/ LoopDone \/ ExitWith \/ ComputeStats)

\* The last statistics line logged.
LoggedPercent == stats[Len(stats)]

\* C4: a run over no URLs completes without a division by zero, with a
\* valid-percentage of 0.
C4_EmptyRunCompletes ==
    Len(urls) = 0 /\ runs > 0 /\ num_threads > 0 =>
        /\ error = "none"
        /\ pc = "returned" => LoggedPercent = <<"percent_x100", 0>>

\* The entries that have a non-empty title.
RECURSIVE TitledEntries(_)
TitledEntries(entries) ==
    IF entries = <<>> THEN <<>>
    ELSE IF Head(entries).has_title /\ Head(entries).title # <<>>
         THEN <<Head(entries)>> \o TitledEntries(Tail(entries))
         ELSE TitledEntries(Tail(entries))

IsFeedSite(s) ==
    /\ s.behaviour = "respond"
    /\ s.status = 200
    /\ Contains(s.content_type, Xml) \/ Contains(s.content_type, Rss)

\* C5: the probe of a feed, asked for a positive number of titles, returns
\* the cleaned titles of the first num_titles entries that have a non-empty
\* title: an entry with an empty title does not count toward the limit.
C5_EmptyTitlesNotCounted ==
    p_out.kind = "return" /\ IsFeedSite(p_site) /\ p_num_titles >= 1 =>
        p_out.titles =
            CleanedTitles(SubSeq(TitledEntries(p_site.entries), 1,
                Min(p_num_titles, Len(TitledEntries(p_site.entries)))))

\* C6: in every state of a run rss_content holds only Valid outcomes: each
\* key is a URL of self.urls with a non-empty title list, and no URL whose
\* probe has ended Invalid in the run (request error, non-200 status,
\* non-feed content type, no titles) is a key.
C6_OnlyValidOutcomesStored ==
    /\ \A u \in DOMAIN rss_content :
         u \in Range(urls) /\ rss_content[u] # <<>>
    /\ \A i \in Futures :
         Finished(i) /\ i \in yielded /\ InvalidOutcome(fut[i].out)
             => urls[i] \notin DOMAIN rss_content

\* C7: never more than num_threads probes are running at once.
C7_BoundedConcurrency == Cardinality(Running) <= num_threads

\* Every worker is busy and a task waits in the queue.
C7_Witness ==
    /\ num_threads = 2
    /\ Cardinality(Running) = 2
    /\ queue # <<>>

\* C8: clean_title is idempotent on every string.
C8_Idempotent == stage = 2 => retitle = title

NoLatin1High(text) == \A i \in 1..Len(text) : text[i] \notin 128..255

\* C8, amended: clean_title is idempotent on every string that has no
\* character in U+0080..U+00FF.
C8_IdempotentWithoutLatin1High ==
    stage = 2 /\ NoLatin1High(raw) => retitle = title

\* A string with a tag, an emoji or a "!" in it, cleaned twice.
C8_Witness ==
    /\ stage = 2
    /\ NoLatin1High(raw)
    /\ Len(raw) = 3
    /\ title # raw
    /\ title # <<>>
    /\ retitle = title

\* word characters, whitespace, ' - & and the curly quotes
AllowListed(c) ==
    IsWord(c) \/ IsSpace(c) \/ c \in {39, 45, 38, 8216, 8217, 8220, 8221}

\* C9: the output of clean_title contains only allow-listed characters.
C9_OnlyAllowListed ==
    stage >= 1 => \A i \in 1..Len(title) : AllowListed(title[i])

\* C9, amended: the output of clean_title contains only word characters,
\* whitespace, "&", the right double quote U+201D and the characters from
\* "'" (U+0027) to the left double quote U+201C.
C9_OnlyPatternCharacters ==
    stage >= 1 =>
        \A i \in 1..Len(title) :
            LET c == title[i]
            IN  \/ IsWord(c) \/ IsSpace(c)
                \/ c = 38
                \/ c = 8221
                \/ (c >= 39 /\ c <= 8220)

\* A title with "!" and ":" in it: the "!" is removed, the ":" is kept.
C9_Witness ==
    /\ stage >= 1
    /\ 33 \in Range(raw)
    /\ 58 \in Range(raw)
    /\ 58 \in Range(title)
    /\ 33 \notin Range(title)

\* C10: run_data_check leaves the mapping as it is, flags a feed as sparse
\* exactly when it has fewer than 3 titles and flags a title as short
\* exactly when it has fewer than 10 characters.
C10_AuditThresholds ==
    [][AtRest /\ pc' = "checked" =>
         /\ rss_content' = rss_content
         /\ \A u \in DOMAIN rss_content :
              /\ Finding("SparseFeed", u, <<>>) \in findings'
                     <=> Len(rss_content[u]) < 3
              /\ \A k \in 1..Len(rss_content[u]) :
                     Finding("ShortTitle", u, rss_content[u][k]) \in findings'
                         <=> Len(rss_content[u][k]) < 10]_vars

\* Checked: a feed of 2 titles flagged and one of 3 not, a title of 9
\* characters flagged and one of 10 not.
C10_Witness ==
    /\ pc = "checked"
    /\ \E u \in DOMAIN rss_content :
         /\ Len(rss_content[u]) = 2
         /\ Finding("SparseFeed", u, <<>>) \in findings
    /\ \E u \in DOMAIN rss_content :
         /\ Len(rss_content[u]) = 3
         /\ Finding("SparseFeed", u, <<>>) \notin findings
    /\ \E u \in DOMAIN rss_content : \E k \in 1..Len(rss_content[u]) :
         /\ Len(rss_content[u][k]) = 9
         /\ Finding("ShortTitle", u, rss_content[u][k]) \in findings
    /\ \E u \in DOMAIN rss_content : \E k \in 1..Len(rss_content[u]) :
         /\ Len(rss_content[u][k]) = 10
         /\ Finding("ShortTitle", u, rss_content[u][k]) \notin findings

====
